---- MODULE Spec2Model ----
(***************************************************************************)
(* Expense splitting and balance engine of habits-backend.                 *)
(*                                                                         *)
(* Money is counted in cents (DecimalField with decimal_places=2), and     *)
(* percentages in hundredths of a percent (DecimalField with               *)
(* decimal_places=2), so every stored value is an integer.                 *)
(* An optional value (a key that may be missing from the request, a        *)
(* nullable column) is a set with at most one element: {} is None.         *)
(***************************************************************************)
EXTENDS Integers, Sequences, FiniteSets, TLC

\* ------------------------------------------------------------------ bounds
MaxSplits == 2         \* longest "splits" list of a request
MaxJoin == 2           \* BoardUser rows per (board, user): no unique constraint

Users == {"A", "B"}
Payers == {"A"}                \* users are interchangeable: one payer is enough
Boards == {"b1"}
ExpIds == {"e1"}
Amounts == {1, 100}            \* 0.01 and 1.00
ShareValues == {1, 99}         \* 0.01 and 0.99
PctValues == {2500, 7500}      \* 25.00 % and 75.00 %
\* share and percentage of an entry that carries both
SharePctValues == {<<1, 2500>>, <<99, 7500>>}

\* ---------------------------------------------------------- program constants
Hundred == 100          \* handle_percentage_splits: total_percentage != 100
PctScale == 100         \* percentage has decimal_places=2: 1 % is 100 hundredths

EQUAL == "equal"
AMOUNT == "amount"
PERCENTAGE == "percentage"
ExpenseSplitType == {EQUAL, AMOUNT, PERCENTAGE}

None == {}
Some(x) == {x}
Get(o) == CHOOSE x \in o : TRUE
Opt(S) == {None} \cup {Some(x) : x \in S}

\* ------------------------------------------------------------------ state
VARIABLES
  halfUp,      \* the storage backend rounds a tie away from zero (else to even)
  members,     \* members[b][u]: number of BoardUser rows of user u in board b
  expenses,    \* expenses[e]: None, or Some(Expense row)
  splits,      \* the ExpenseSplit table: a set of rows
  last,        \* the request handled last, and how it ended
  reqs,        \* the requests in flight (interleaved executions only)
  userTable,   \* the User table: the set of users that exist
  boards       \* boards[b]: None, or Some(Board row)

vars == <<halfUp, members, expenses, splits, last, reqs, userTable, boards>>

\* ---------------------------------------------------------------- decimals
\* A value num/den (num >= 0, den > 0) as stored in a column with two decimal
\* places: rounded to the nearest cent, a tie by the backend's rule.
Quantize(num, den, up) ==
  LET q == num \div den
      r == num % den
  IN  IF 2 * r < den THEN q
      ELSE IF 2 * r > den THEN q + 1
      ELSE IF up THEN q + 1
      ELSE IF q % 2 = 0 THEN q ELSE q + 1

RECURSIVE SumShares(_)
\* Sum("share_amount") over a set of ExpenseSplit rows
SumShares(S) ==
  IF S = {} THEN 0
  ELSE LET x == CHOOSE y \in S : TRUE IN x.share_amount + SumShares(S \ {x})

\* ------------------------------------------------------------------ tables
SplitRow(e, u, share, pct) ==
  [expense |-> e, user |-> u, share_amount |-> share, percentage |-> pct]

\* expense.splits.all()
SplitsOf(rows, e) == {r \in rows : r.expense = e}

DeleteSplitsNothing(rows, e) == rows

\* expense.splits.all().delete()
DeleteSplits(rows, e) == rows \ SplitsOf(rows, e)

InsertRow(rows, e, u, share, pct) == rows \cup {SplitRow(e, u, share, pct)}

\* ExpenseSplit.objects.update_or_create(expense=e, user=u, defaults={...}):
\* the row of (e, u) gets the defaults, and is created when there is none.
UpdateOrCreate(rows, e, u, share, pct) ==
  {r \in rows : ~(r.expense = e /\ r.user = u)} \cup {SplitRow(e, u, share, pct)}

RECURSIVE Repeat(_, _)
Repeat(x, n) == IF n = 0 THEN <<>> ELSE <<x>> \o Repeat(x, n - 1)

RECURSIVE BoardUsersFrom(_, _)
BoardUsersFrom(mb, S) ==
  IF S = {} THEN <<>>
  ELSE LET u == CHOOSE x \in S : TRUE
       IN  Repeat(u, mb[u]) \o BoardUsersFrom(mb, S \ {u})

\* [bu.user for bu in expense.board.users.all()]: one entry per BoardUser row
BoardUsers(mem, b) == BoardUsersFrom(mem[b], Users)

HasDuplicates(s) == \E i, j \in DOMAIN s : i < j /\ s[i] = s[j]

\* --------------------------------------------------------------- requests
\* One entry of the "splits" list: ExpenseSplitSerializer's writable fields.
Entry(u, share, pct) == [user |-> u, share_amount |-> share, percentage |-> pct]

\* The entries of one list have the same keys: the user alone, the user and
\* a share, or the user, a share and a percentage.
EntriesUserOnly == {Entry(u, None, None) : u \in Users}
EntriesShare == {Entry(u, Some(s), None) : u \in Users, s \in ShareValues}
EntriesSharePct ==
  {Entry(u, Some(sp[1]), Some(sp[2])) : u \in Users, sp \in SharePctValues}

SeqsUpTo(S, n) == UNION {[1..k -> S] : k \in 0..n}

SplitsInputs ==
  SeqsUpTo(EntriesUserOnly, MaxSplits) \cup SeqsUpTo(EntriesShare, MaxSplits)
    \cup SeqsUpTo(EntriesSharePct, MaxSplits)

\* The body of a PATCH: every field may be missing (board and payer always are).
UpdateRequests ==
  [board : {None}, payer : {None}, amount : Opt(Amounts),
   split_type : Opt(ExpenseSplitType), splits : Opt(SplitsInputs)]

\* The body of a POST: board, payer and amount are required fields.
CreateRequests ==
  [board : {Some(b) : b \in Boards}, payer : {Some(u) : u \in Payers},
   amount : {Some(a) : a \in Amounts},
   split_type : Opt(ExpenseSplitType), splits : Opt(SplitsInputs)]

\* ExpenseCreateUpdateSerializer.__init__ and ExpenseSplitSerializer.__init__:
\* share_amount is a required key of an entry unless the request itself says
\* split_type = equal.
RequiresData(split_type) == split_type # Some(EQUAL)

\* is_valid() of the nested "splits" field. A PATCH is a partial update, which
\* skips the check of required keys; a POST applies it.
FieldsValid(partial, split_type, data) ==
  IF partial \/ data = None THEN TRUE
  ELSE \A i \in DOMAIN Get(data) :
         RequiresData(split_type) => Get(data)[i].share_amount # None

\* --------------------------------------------------------------- handlers
OK == "ok"
ValidationError == "ValidationError"
KeyError == "KeyError"

Outcome(res, rows) == [result |-> res, rows |-> rows]

\* What a handler decides before it writes: how it ends, and the rows to write.
Plan(res, items) == [result |-> res, items |-> items]

\* "not splits_data": None and the empty list alike
NotData(data) == data = None \/ Get(data) = <<>>

UsersOf(items) == [i \in DOMAIN items |-> items[i].user]

RECURSIVE UpsertAll(_, _, _)
\* for ... in ...: ExpenseSplit.objects.update_or_create(expense=expense, ...)
UpsertAll(rows, e, items) ==
  IF items = <<>> THEN rows
  ELSE LET sd == Head(items)
       IN  UpsertAll(UpdateOrCreate(rows, e, sd.user, Get(sd.share_amount), sd.percentage),
                     e, Tail(items))

EqualPlanNoDuplicateCheck(exp, data, mem, up) ==
  LET users == IF NotData(data) THEN BoardUsers(mem, exp.board) ELSE UsersOf(Get(data))
      share == Quantize(exp.amount, Len(users), up)
  IN  IF users = <<>> THEN Plan(ValidationError, <<>>)
      ELSE Plan(OK, [i \in DOMAIN users |-> Entry(users[i], Some(share), None)])

\* handle_equal_splits up to its loop
EqualPlan(exp, data, mem, up) ==
  LET users == IF NotData(data) THEN BoardUsers(mem, exp.board) ELSE UsersOf(Get(data))
      share == Quantize(exp.amount, Len(users), up)
  IN  IF users = <<>> THEN Plan(ValidationError, <<>>)
      ELSE IF HasDuplicates(users) THEN Plan(ValidationError, <<>>)
      ELSE Plan(OK, [i \in DOMAIN users |-> Entry(users[i], Some(share), None)])

RECURSIVE SumPct(_)
SumPct(items) ==
  IF items = <<>> THEN 0 ELSE Get(Head(items).percentage) + SumPct(Tail(items))

\* share_amount = (sd["percentage"] / 100) * expense.amount, stored in cents
PercentageShare(pct, amount, up) == Quantize(pct * amount, Hundred * PctScale, up)

\* handle_percentage_splits up to its loop
PercentagePlan(exp, data, up) ==
  IF NotData(data) THEN Plan(ValidationError, <<>>)
  ELSE LET items == Get(data) IN
    IF \E i \in DOMAIN items : items[i].percentage = None THEN Plan(KeyError, <<>>)
    ELSE IF SumPct(items) # Hundred * PctScale THEN Plan(ValidationError, <<>>)
    ELSE IF HasDuplicates(UsersOf(items)) THEN Plan(ValidationError, <<>>)
    ELSE Plan(OK, [i \in DOMAIN items |->
                    Entry(items[i].user,
                          Some(PercentageShare(Get(items[i].percentage), exp.amount, up)),
                          items[i].percentage)])

RECURSIVE SumShareInput(_)
SumShareInput(items) ==
  IF items = <<>> THEN 0 ELSE Get(Head(items).share_amount) + SumShareInput(Tail(items))

AmountPlanNoSumCheck(exp, data) ==
  IF NotData(data) THEN Plan(ValidationError, <<>>)
  ELSE LET items == Get(data) IN
    IF \E i \in DOMAIN items : items[i].share_amount = None THEN Plan(KeyError, <<>>)
    ELSE IF HasDuplicates(UsersOf(items)) THEN Plan(ValidationError, <<>>)
    ELSE Plan(OK, items)

\* handle_amount_splits up to its loop
AmountPlan(exp, data) ==
  IF NotData(data) THEN Plan(ValidationError, <<>>)
  ELSE LET items == Get(data) IN
    IF \E i \in DOMAIN items : items[i].share_amount = None THEN Plan(KeyError, <<>>)
    ELSE IF SumShareInput(items) # exp.amount THEN Plan(ValidationError, <<>>)
    ELSE IF HasDuplicates(UsersOf(items)) THEN Plan(ValidationError, <<>>)
    ELSE Plan(OK, items)

\* The dispatch of create_from_splits_data on expense.split_type
SplitsPlan(exp, data, mem, up) ==
  IF exp.split_type = AMOUNT THEN AmountPlan(exp, data)
  ELSE IF exp.split_type = PERCENTAGE THEN PercentagePlan(exp, data, up)
  ELSE EqualPlan(exp, data, mem, up)

\* The splits of the expense are deleted, then the handler of its split_type
\* validates the input and writes one row per participant.
create_from_splits_data(exp, e, data, rows, mem, up) ==
  LET cleared == DeleteSplits(rows, e)
      plan == SplitsPlan(exp, data, mem, up)
  IN  Outcome(plan.result, UpsertAll(cleared, e, plan.items))

\* ---------------------------------------------------------------- balances
RECURSIVE SumAmounts(_, _)
\* Sum("amount") over the expenses of the set E
SumAmounts(exps, E) ==
  IF E = {} THEN 0
  ELSE LET e == CHOOSE x \in E : TRUE
       IN  Get(exps[e]).amount + SumAmounts(exps, E \ {e})

PaidTotalAnyPayer(exps, b, u) ==
  SumAmounts(exps, {e \in DOMAIN exps : exps[e] # None /\ Get(exps[e]).board = b})

\* self.expenses.filter(payer=user).aggregate(Sum("amount")) or 0
PaidTotal(exps, b, u) ==
  SumAmounts(exps, {e \in DOMAIN exps : exps[e] # None /\ Get(exps[e]).board = b
                                   /\ Get(exps[e]).payer = u})

OwedTotalAnyBoard(exps, rows, b, u) == SumShares({r \in rows : r.user = u})

\* ExpenseSplit.objects.filter(expense__board=self, user=user)
\*   .aggregate(Sum("share_amount")) or 0
OwedTotal(exps, rows, b, u) ==
  SumShares({r \in rows : exps[r.expense] # None /\ Get(exps[r.expense]).board = b
                           /\ r.user = u})

\* Board.get_balances over the tables exps, rows and mem
Balances(exps, rows, mem, b) ==
  [u \in {x \in Users : mem[b][x] > 0} |-> PaidTotal(exps, b, u) - OwedTotal(exps, rows, b, u)]

get_balances(b) == Balances(expenses, splits, members, b)

\* float(d) for a Decimal d of c cents: the binary64 number nearest to c/100.
\* c/100 is itself a binary64 number exactly when it is a multiple of 1/4
\* (c a multiple of 25; the sums here are far below 2^53); otherwise the
\* float is a neighbour of c/100, not c/100.
float(c) == [nearest |-> c, exact |-> c % 25 = 0]

\* f == d for a float f and a Decimal d of c cents: Python compares the two
\* by their exact values.
EqualsDecimal(f, c) == f.exact /\ f.nearest = c

\* User.balance_in_board(board) for user u and board b
balance_in_board(exps, rows, u, b) ==
  LET paid == PaidTotal(exps, b, u)
      owed == OwedTotal(exps, rows, b, u)
  IN  float(paid - owed)

\* ---------------------------------------------------------------- listing
get_querysetAnyUser(exps, mem, u, board_pk) ==
  [e \in {x \in DOMAIN exps : exps[x] # None} |->
     IF board_pk = None \/ Get(exps[e]).board = Get(board_pk) THEN 1 ELSE 0]

\* ExpenseViewSet.get_queryset for request.user = u and the board_pk of the
\* URL (None on /expenses/): how often each expense is in the result. The
\* filter on board__users__user joins BoardUser, one result per row of u.
get_queryset(exps, mem, u, board_pk) ==
  [e \in {x \in DOMAIN exps : exps[x] # None} |->
     IF board_pk = None \/ Get(exps[e]).board = Get(board_pk)
       THEN mem[Get(exps[e]).board][u] ELSE 0]

\* ------------------------------------------------------------- operations
Expense(b, payer, st, amount) ==
  [board |-> b, payer |-> payer, split_type |-> st, amount |-> amount]

Board(name, created_by) == [name |-> name, created_by |-> created_by]

\* create_board_for_user: name="Default Board"
DefaultBoardName == "Default Board"

IsValidStage == "is_valid"
SplitsStage == "splits"
DoneStage == "done"

Handled(op, e, req, res, stage) ==
  [op |-> op, expense |-> e, req |-> req, result |-> res, stage |-> stage]

NoRequest ==
  [board |-> None, payer |-> None, amount |-> None, split_type |-> None, splits |-> None]

\* ---------------------------- requests in flight (interleaved executions)
ReqIds == {"r1", "r2"}

\* One request: where its handler stands (pc), the instance get_object()
\* loaded with the fields of the request set, the rows still to write, and,
\* for the claims, the splits of the expense when the request started (old)
\* and the splits it leaves when it runs with no other request (alone).
Request(pc, e, req, instance, old, alone, todo, res) ==
  [pc |-> pc, expense |-> e, req |-> req, instance |-> instance, old |-> old,
   alone |-> alone, todo |-> todo, result |-> res]

Idle == [r \in ReqIds |->
          Request("idle", CHOOSE e \in ExpIds : TRUE, NoRequest, None, {}, {}, <<>>, OK)]

\* Expense.objects.create(**validated_data): split_type defaults to EQUAL
NewExpense(req) ==
  Expense(Get(req.board), Get(req.payer),
          IF req.split_type = None THEN EQUAL ELSE Get(req.split_type), Get(req.amount))

\* for attr, value in validated_data.items(): setattr(instance, attr, value)
SetAttrs(exp, req) ==
  [exp EXCEPT !.amount = IF req.amount = None THEN @ ELSE Get(req.amount),
              !.split_type = IF req.split_type = None THEN @ ELSE Get(req.split_type)]

\* is_valid() of the related fields: board, payer and the user of every
\* entry name a row that exists.
RefsExist(req) ==
  /\ req.board # None => (Get(req.board) \in DOMAIN boards /\ boards[Get(req.board)] # None)
  /\ req.payer # None => Get(req.payer) \in userTable
  /\ req.splits # None => \A i \in DOMAIN Get(req.splits) : Get(req.splits)[i].user \in userTable

\* POST /expenses/: is_valid(), then ExpenseCreateUpdateSerializer.create
CreateExpense(e, req) ==
  /\ last.op = "none"
  /\ expenses[e] = None
  /\ IF ~RefsExist(req) \/ ~FieldsValid(FALSE, req.split_type, req.splits)
       THEN /\ last' = Handled("create", e, req, ValidationError, IsValidStage)
            /\ UNCHANGED <<expenses, splits>>
       ELSE LET exp == NewExpense(req)
                out == create_from_splits_data(exp, e, req.splits, splits, members, halfUp)
            IN  /\ expenses' = [expenses EXCEPT ![e] = Some(exp)]
                /\ splits' = out.rows
                /\ last' = Handled("create", e, req, out.result,
                                   IF out.result = OK THEN DoneStage ELSE SplitsStage)
  /\ UNCHANGED <<halfUp, members, reqs, userTable, boards>>

updateAlwaysRecompute(exp, e, req, rows, mem, up) ==
  LET instance == SetAttrs(exp, req)
      out == create_from_splits_data(instance, e, req.splits, rows, mem, up)
  IN  [instance |-> instance, result |-> out.result, rows |-> out.rows]

updateFromStored(exp, e, req, rows, mem, up) ==
  LET instance == SetAttrs(exp, req)
      out == IF req.splits = None THEN Outcome(OK, rows)
             ELSE create_from_splits_data(exp, e, req.splits, rows, mem, up)
  IN  [instance |-> instance, result |-> out.result, rows |-> out.rows]

\* ExpenseCreateUpdateSerializer.update on the tables rows and mem: the fields
\* of the request are set and saved, and the splits are computed again only
\* when the request has a "splits" key.
update(exp, e, req, rows, mem, up) ==
  LET instance == SetAttrs(exp, req)
      out == IF req.splits = None THEN Outcome(OK, rows)
             ELSE create_from_splits_data(instance, e, req.splits, rows, mem, up)
  IN  [instance |-> instance, result |-> out.result, rows |-> out.rows]

\* PATCH /expenses/<id>/: is_valid(), which a partial update always passes
\* here, then ExpenseCreateUpdateSerializer.update
UpdateExpense(e, req) ==
  /\ last.op = "none"
  /\ expenses[e] # None
  /\ RefsExist(req)
  /\ FieldsValid(TRUE, req.split_type, req.splits)
  /\ LET out == update(Get(expenses[e]), e, req, splits, members, halfUp)
     IN  /\ expenses' = [expenses EXCEPT ![e] = Some(out.instance)]
         /\ splits' = out.rows
         /\ last' = Handled("update", e, req, out.result,
                            IF out.result = OK THEN DoneStage ELSE SplitsStage)
  /\ UNCHANGED <<halfUp, members, reqs, userTable, boards>>

\* BoardUser.objects.create(user=u, board=b)
AddMember(b, u) ==
  /\ last.op = "none"
  /\ boards[b] # None /\ u \in userTable
  /\ members[b][u] < MaxJoin
  /\ members' = [members EXCEPT ![b][u] = @ + 1]
  /\ UNCHANGED <<halfUp, expenses, splits, last, reqs, userTable, boards>>

NoneHandled == Handled("none", CHOOSE e \in ExpIds : TRUE, NoRequest, OK, DoneStage)

\* The response is sent: the next request is taken.
Respond ==
  /\ last.op # "none"
  /\ last' = NoneHandled
  /\ UNCHANGED <<halfUp, members, expenses, splits, reqs, userTable, boards>>

\* One board made with POST /boards/ (which adds no member) and no expense;
\* the users exist.
Init ==
  /\ halfUp \in BOOLEAN
  /\ members = [b \in Boards |-> [u \in Users |-> 0]]
  /\ expenses = [e \in ExpIds |-> None]
  /\ splits = {}
  /\ last = NoneHandled
  /\ reqs = Idle
  /\ userTable = Users
  /\ boards = [b \in Boards |-> Some(Board("Board", "A"))]

\* A request is taken when the one before it was answered.
Next ==
  \/ last.op = "none" /\ \E e \in ExpIds, req \in CreateRequests : CreateExpense(e, req)
  \/ last.op = "none" /\ \E e \in ExpIds, req \in UpdateRequests : UpdateExpense(e, req)
  \/ \E b \in Boards, u \in Users : AddMember(b, u)
  \/ Respond

Spec == Init /\ [][Next]_vars

\* ------------------------------------------------- interleaved executions
\* Each statement of the ORM is committed on its own (no transaction.atomic
\* around create or update), so the statements of two requests interleave.

\* PATCH bodies sent concurrently: Amount splits for the expense
ConcRequests ==
  [board : {None}, payer : {None}, amount : {None},
   split_type : {None, Some(AMOUNT)},
   splits : {Some(x) : x \in SeqsUpTo(EntriesShare, MaxSplits)}]

\* get_object(), is_valid(), and the setattr loop of update
StartUpdate(r, e, req) ==
  /\ reqs[r].pc = "idle"
  /\ expenses[e] # None
  /\ FieldsValid(TRUE, req.split_type, req.splits)
  /\ LET instance == SetAttrs(Get(expenses[e]), req)
         alone == IF req.splits = None THEN splits
                  ELSE create_from_splits_data(instance, e, req.splits, splits,
                                               members, halfUp).rows
     IN  reqs' = [reqs EXCEPT ![r] =
                    Request("save", e, req, Some(instance), SplitsOf(splits, e),
                            SplitsOf(alone, e), <<>>, OK)]
  /\ UNCHANGED <<halfUp, members, expenses, splits, last, userTable, boards>>

\* instance.save()
SaveStep(r) ==
  /\ reqs[r].pc = "save"
  /\ expenses' = [expenses EXCEPT ![reqs[r].expense] = reqs[r].instance]
  /\ reqs' = [reqs EXCEPT ![r].pc = IF reqs[r].req.splits = None THEN "done" ELSE "delete"]
  /\ UNCHANGED <<halfUp, members, splits, last, userTable, boards>>

\* expense.splits.all().delete()
DeleteStep(r) ==
  /\ reqs[r].pc = "delete"
  /\ splits' = DeleteSplits(splits, reqs[r].expense)
  /\ reqs' = [reqs EXCEPT ![r].pc = "plan"]
  /\ UNCHANGED <<halfUp, members, expenses, last, userTable, boards>>

\* the handler up to its loop: the members of the board are read, the input
\* is validated
PlanStep(r) ==
  /\ reqs[r].pc = "plan"
  /\ LET plan == SplitsPlan(Get(reqs[r].instance), reqs[r].req.splits, members, halfUp)
     IN  reqs' = [reqs EXCEPT ![r].pc = IF plan.result = OK THEN "write" ELSE "done",
                              ![r].todo = plan.items,
                              ![r].result = plan.result]
  /\ UNCHANGED <<halfUp, members, expenses, splits, last, userTable, boards>>

\* one turn of the handler's loop: one update_or_create
WriteStep(r) ==
  /\ reqs[r].pc = "write"
  /\ LET sd == Head(reqs[r].todo)
     IN  splits' = UpdateOrCreate(splits, reqs[r].expense, sd.user,
                                  Get(sd.share_amount), sd.percentage)
  /\ reqs' = [reqs EXCEPT ![r].todo = Tail(@),
                           ![r].pc = IF Tail(reqs[r].todo) = <<>> THEN "done" ELSE "write"]
  /\ UNCHANGED <<halfUp, members, expenses, last, userTable, boards>>

\* An Equal expense of 1.00 split between the two members of its board, as
\* CreateExpense leaves it.
InitConc ==
  /\ halfUp \in BOOLEAN
  /\ members = [b \in Boards |-> [u \in Users |-> 1]]
  /\ expenses = [e \in ExpIds |-> Some(Expense("b1", "A", EQUAL, 100))]
  /\ splits = {SplitRow(e, u, 50, None) : e \in ExpIds, u \in Users}
  /\ last = NoneHandled
  /\ reqs = Idle
  /\ userTable = Users
  /\ boards = [b \in Boards |-> Some(Board("Board", "A"))]

NextConc ==
  \/ \E r \in ReqIds, e \in ExpIds, req \in ConcRequests : StartUpdate(r, e, req)
  \/ \E r \in ReqIds : SaveStep(r)
  \/ \E r \in ReqIds : DeleteStep(r)
  \/ \E r \in ReqIds : PlanStep(r)
  \/ \E r \in ReqIds : WriteStep(r)

SpecConc == InitConc /\ [][NextConc]_vars

\* ------------------------------------------------- users and their boards
\* The ids a new board can get, in the order in which they are given out, and
\* the ids of the expenses of the two boards.
BoardIds == {"b1", "b2", "b3"}
BoardOrder == <<"b1", "b2", "b3">>
LedgerExpIds == {"e1", "e2"}

\* id = uuid4(): an id no board has
NewBoardId(bs) ==
  BoardOrder[CHOOSE i \in DOMAIN BoardOrder :
               /\ bs[BoardOrder[i]] = None
               /\ \A j \in 1..(i - 1) : bs[BoardOrder[j]] # None]

create_board_for_userAlways(u, created, bs, mem) ==
  LET b == NewBoardId(bs)
  IN  [boards |-> [bs EXCEPT ![b] = Some(Board(DefaultBoardName, u))],
       members |-> [mem EXCEPT ![b][u] = @ + 1]]

\* The post_save receiver of User: a board and one BoardUser row when the
\* user was created, nothing otherwise.
create_board_for_user(u, created, bs, mem) ==
  IF created
    THEN LET b == NewBoardId(bs)
         IN  [boards |-> [bs EXCEPT ![b] = Some(Board(DefaultBoardName, u))],
              members |-> [mem EXCEPT ![b][u] = @ + 1]]
    ELSE [boards |-> bs, members |-> mem]

\* User.save(): the row is inserted when there is none (created), and the
\* post_save signal is sent.
SaveUser(u) ==
  /\ last.op = "none"
  /\ \E b \in BoardIds : boards[b] = None
  /\ LET created == u \notin userTable
         sig == create_board_for_user(u, created, boards, members)
     IN  /\ userTable' = userTable \cup {u}
         /\ boards' = sig.boards
         /\ members' = sig.members
  /\ UNCHANGED <<halfUp, expenses, splits, last, reqs>>

\* The bodies of POST /expenses/ sent here: Equal expenses of 1.00, split
\* among the members of the board or given to one user.
LedgerCreates ==
  [board : {Some(b) : b \in BoardIds}, payer : {Some(u) : u \in Users},
   amount : {Some(100)}, split_type : {Some(EQUAL)},
   splits : {None} \cup {Some(<<x>>) : x \in EntriesUserOnly}]

\* No user, no board, no expense.
InitBoards ==
  /\ halfUp \in BOOLEAN
  /\ members = [b \in BoardIds |-> [u \in Users |-> 0]]
  /\ expenses = [e \in LedgerExpIds |-> None]
  /\ splits = {}
  /\ last = NoneHandled
  /\ reqs = Idle
  /\ userTable = {}
  /\ boards = [b \in BoardIds |-> None]

NextBoards ==
  \/ \E u \in Users : SaveUser(u)
  \/ \E b \in BoardIds, u \in Users : AddMember(b, u)
  \/ last.op = "none"
       /\ \E e \in {x \in LedgerExpIds : x = "e1" \/ expenses["e1"] # None},
              req \in LedgerCreates : CreateExpense(e, req)
  \/ Respond

SpecBoards == InitBoards /\ [][NextBoards]_vars

\* ------------------------------------------------------------------ claims
\* What the request handled last was about.
LastExp == Get(expenses[last.expense])
LastRows == SplitsOf(splits, last.expense)
IsRequest == last.op \in {"create", "update"}
Succeeded == last.result = OK
\* create_from_splits_data ran: always on create, on update when "splits" is given
Recomputed ==
  /\ last.stage # IsValidStage
  /\ last.op = "create" \/ (last.op = "update" /\ last.req.splits # None)
InputItems == IF last.req.splits = None THEN <<>> ELSE Get(last.req.splits)
InputUsers == {InputItems[i].user : i \in DOMAIN InputItems}
InputRepeatsUser == Cardinality(InputUsers) < Len(InputItems)
\* split_type, amount and board the expense has when its splits are computed
LastType ==
  IF last.req.split_type # None THEN Get(last.req.split_type)
  ELSE IF last.op = "create" THEN EQUAL ELSE LastExp.split_type
LastAmount == IF last.req.amount # None THEN Get(last.req.amount) ELSE LastExp.amount
LastBoard == IF last.req.board # None THEN Get(last.req.board) ELSE LastExp.board
MemberSet(b) == {u \in Users : members[b][u] > 0}
Abs(x) == IF x < 0 THEN -x ELSE x
\* share is num/den rounded to the nearest cent, a tie either way
IsNearest(share, num, den) == 2 * Abs(share * den - num) <= den

\* C1: the shares of every Equal split computed by create or update sum
\* exactly to the amount of the expense.
C1_EqualSharesSumToAmount ==
  (IsRequest /\ Recomputed /\ Succeeded /\ LastType = EQUAL)
    => SumShares(LastRows) = LastExp.amount

\* C3: an update that fails with ValidationError during split computation
\* leaves the scalar fields and the splits of the expense as they were.
C3_FailedUpdatePersistsNothing ==
  [][(last.op = "none" /\ last'.op = "update" /\ last'.result = ValidationError
        /\ last'.stage = SplitsStage)
      => (expenses' = expenses /\ splits' = splits)]_vars

\* C4: a create that fails with ValidationError during split computation
\* leaves no Expense record and no split of it.
C4_FailedCreateLeavesNoExpense ==
  (last.op = "create" /\ last.result = ValidationError /\ last.stage = SplitsStage)
    => (expenses[last.expense] = None /\ LastRows = {})

\* The participants the splits are computed for: the users of the input, or
\* the members of the board when the input is missing or empty.
Participants == IF InputItems = <<>> THEN MemberSet(LastBoard) ELSE InputUsers
\* the number of entries of that list, a user counted as often as it occurs
RECURSIVE BoardUserRows(_, _)
BoardUserRows(b, S) ==
  IF S = {} THEN 0
  ELSE LET u == CHOOSE x \in S : TRUE IN members[b][u] + BoardUserRows(b, S \ {u})
ParticipantCount ==
  IF InputItems = <<>> THEN BoardUserRows(LastBoard, Users) ELSE Len(InputItems)
\* the entries of the input that name user u
EntriesOf(u) == {i \in DOMAIN InputItems : InputItems[i].user = u}
\* row r is what the strategy of the expense computes for its user
NewlyComputed(r) ==
  IF LastType = AMOUNT
    THEN \E i \in EntriesOf(r.user) : r.share_amount = Get(InputItems[i].share_amount)
  ELSE IF LastType = PERCENTAGE
    THEN \E i \in EntriesOf(r.user) :
           /\ r.percentage = InputItems[i].percentage
           /\ IsNearest(r.share_amount, Get(InputItems[i].percentage) * LastExp.amount,
                        Hundred * PctScale)
  ELSE r.percentage = None /\ IsNearest(r.share_amount, LastExp.amount, ParticipantCount)

\* C6: after a successful update with split input the expense has exactly
\* one newly computed split per participant and none of any other user, and
\* the balances of the board count, for this expense, those splits alone.
C6_SplitsReplaced ==
  (last.op = "update" /\ Succeeded /\ last.req.splits # None) =>
    /\ {r.user : r \in LastRows} = Participants
    /\ Cardinality(LastRows) = Cardinality(Participants)
    /\ \A r \in LastRows : NewlyComputed(r)
    /\ \A u \in DOMAIN get_balances(LastBoard) :
         LET others == OwedTotal(expenses, splits \ LastRows, LastBoard, u)
             owed == PaidTotal(expenses, LastBoard, u) - get_balances(LastBoard)[u] - others
         IN  IF u \in Participants
               THEN \E r \in LastRows : r.user = u /\ r.share_amount = owed
               ELSE owed = 0

\* C6 witness: a successful update with split input that leaves a member of
\* the board without a split.
C6_Witness ==
  /\ last.op = "update" /\ Succeeded /\ last.req.splits # None
  /\ Participants # {}
  /\ MemberSet(LastBoard) \ Participants # {}

AllCarryShare == \A i \in DOMAIN InputItems : InputItems[i].share_amount # None
AllCarryPercentage == \A i \in DOMAIN InputItems : InputItems[i].percentage # None

\* C7: for an Amount expense, split input whose entries carry a share fails
\* with ValidationError whenever the shares do not sum to the amount of the
\* expense; when they do and no user repeats, the expense has one split per
\* entry, with the share of the entry.
C7_AmountSharesChecked ==
  (IsRequest /\ last.req.splits # None /\ LastType = AMOUNT /\ AllCarryShare) =>
    /\ SumShareInput(InputItems) # LastAmount => last.result = ValidationError
    /\ (SumShareInput(InputItems) = LastAmount /\ ~InputRepeatsUser) =>
         /\ Succeeded
         /\ Cardinality(LastRows) = Len(InputItems)
         /\ \A i \in DOMAIN InputItems : \E r \in LastRows :
              /\ r.user = InputItems[i].user
              /\ r.share_amount = Get(InputItems[i].share_amount)

\* C7 witness: an Amount expense whose two entries of different shares were
\* accepted.
C7_Witness ==
  /\ IsRequest /\ last.req.splits # None /\ LastType = AMOUNT /\ Succeeded
  /\ Len(InputItems) = MaxSplits
  /\ \E i, j \in DOMAIN InputItems :
       Get(InputItems[i].share_amount) # Get(InputItems[j].share_amount)

\* C8: for a Percentage expense, split input whose entries carry a
\* percentage fails with ValidationError whenever the percentages do not sum
\* to 100; otherwise (no user repeating) each participant has a split whose
\* share is exactly percentage/100 times the amount, with the percentage.
C8_PercentageSharesExact ==
  (IsRequest /\ last.req.splits # None /\ LastType = PERCENTAGE /\ AllCarryPercentage) =>
    /\ SumPct(InputItems) # Hundred * PctScale => last.result = ValidationError
    /\ (SumPct(InputItems) = Hundred * PctScale /\ ~InputRepeatsUser) =>
         /\ Succeeded
         /\ \A i \in DOMAIN InputItems : \E r \in LastRows :
              /\ r.user = InputItems[i].user
              /\ r.percentage = InputItems[i].percentage
              /\ r.share_amount * Hundred * PctScale
                   = Get(InputItems[i].percentage) * LastAmount

\* What the code persists instead: percentage/100 times the amount rounded
\* to the nearest cent, the two decimal places of ExpenseSplit.share_amount.
C8_PercentageSharesRounded ==
  (IsRequest /\ last.req.splits # None /\ LastType = PERCENTAGE /\ AllCarryPercentage) =>
    /\ SumPct(InputItems) # Hundred * PctScale => last.result = ValidationError
    /\ (SumPct(InputItems) = Hundred * PctScale /\ ~InputRepeatsUser) =>
         /\ Succeeded
         /\ Cardinality(LastRows) = Len(InputItems)
         /\ \A i \in DOMAIN InputItems : \E r \in LastRows :
              /\ r.user = InputItems[i].user
              /\ r.percentage = InputItems[i].percentage
              /\ IsNearest(r.share_amount, Get(InputItems[i].percentage) * LastAmount,
                           Hundred * PctScale)

\* C9: whatever the strategy, split input that names a user more than once
\* ends in ValidationError and leaves the expense without splits.
C9_DuplicateUserRejected ==
  (IsRequest /\ last.req.splits # None /\ InputRepeatsUser) =>
    (last.result = ValidationError /\ LastRows = {})

RECURSIVE SumOf(_, _)
\* the sum of f over the set S
SumOf(f, S) ==
  IF S = {} THEN 0 ELSE LET x == CHOOSE y \in S : TRUE IN f[x] + SumOf(f, S \ {x})

ExistingBoards == {b \in DOMAIN boards : boards[b] # None}
ExistingExpenses == {e \in DOMAIN expenses : expenses[e] # None}
ExpensesOfBoard(b) == {e \in ExistingExpenses : Get(expenses[e]).board = b}
\* what user u paid for the expenses of board b, and what u owes for them
PaidIn(b, u) ==
  SumOf([e \in ExistingExpenses |-> Get(expenses[e]).amount],
        {e \in ExpensesOfBoard(b) : Get(expenses[e]).payer = u})
OwedIn(b, u) ==
  SumOf([r \in splits |-> r.share_amount],
        {r \in splits : r.expense \in ExpensesOfBoard(b) /\ r.user = u})

\* C11: get_balances of a board has exactly one entry per member of the
\* board, which is what the member paid for the expenses of the board minus
\* the shares of the member in the splits of those expenses (0 for a member
\* with neither); expenses and splits of other boards do not count.
C11_BalancesPerMember ==
  \A b \in ExistingBoards :
    /\ DOMAIN get_balances(b) = MemberSet(b)
    /\ \A u \in MemberSet(b) :
         /\ get_balances(b)[u] = PaidIn(b, u) - OwedIn(b, u)
         /\ ({e \in ExpensesOfBoard(b) : Get(expenses[e]).payer = u} = {}
               /\ {r \in splits : r.expense \in ExpensesOfBoard(b) /\ r.user = u} = {})
              => get_balances(b)[u] = 0

\* C11 witness: a member of a board who has a split in that board and one in
\* another board, next to a member who paid nothing and has no split there.
C11_Witness ==
  \E b \in ExistingBoards, c \in ExistingBoards, u \in Users, v \in Users :
    /\ b # c /\ u # v /\ {u, v} \subseteq MemberSet(b)
    /\ OwedIn(b, u) > 0 /\ OwedIn(c, u) > 0
    /\ PaidIn(b, v) = 0 /\ OwedIn(b, v) = 0

\* The update handled last, called once more with the same body.
UpdateAgain == update(LastExp, last.expense, last.req, splits, members, halfUp)

\* C12: an update called a second time with the same body, right after the
\* first, ends as the first did and leaves the split set the first left:
\* the same users, share amounts and percentages.
C12_UpdateIdempotent ==
  last.op = "update" =>
    /\ UpdateAgain.result = last.result
    /\ UpdateAgain.instance = LastExp
    /\ SplitsOf(UpdateAgain.rows, last.expense) = LastRows

\* C12 witness: an update that changed the amount and wrote two splits from
\* its split input.
C12_Witness ==
  /\ last.op = "update" /\ Succeeded
  /\ last.req.splits # None /\ last.req.amount # None
  /\ Cardinality(LastRows) = MaxSplits

\* C13: creating an Equal expense without explicit participants on a board
\* of n members, the payer being one of them and the amount divisible by n,
\* succeeds with n splits of amount/n, and the balances of the board are
\* amount - amount/n for the payer and -amount/n for every other member.
C13_EqualOverMembers ==
  LET b == Get(last.req.board)
      payer == Get(last.req.payer)
      amount == Get(last.req.amount)
      n == Cardinality(MemberSet(b))
  IN  (/\ last.op = "create" /\ LastType = EQUAL /\ last.req.splits = None
       /\ payer \in MemberSet(b) /\ amount % n = 0) =>
        /\ Succeeded
        /\ Cardinality(LastRows) = n
        /\ \A r \in LastRows : r.share_amount = amount \div n
        /\ \A u \in MemberSet(b) :
             get_balances(b)[u] = IF u = payer THEN amount - amount \div n
                                  ELSE 0 - amount \div n

\* C14: a successful update of an Equal expense with the split input omitted
\* leaves one split per current member of the board.
C14_OmittedInputRecomputes ==
  (last.op = "update" /\ Succeeded /\ LastExp.split_type = EQUAL
     /\ last.req.splits = None) =>
    /\ {r.user : r \in LastRows} = MemberSet(LastExp.board)
    /\ Cardinality(LastRows) = Cardinality(MemberSet(LastExp.board))

\* What the code does instead: an update of an Equal expense with the split
\* input omitted succeeds and leaves the splits as they were; with an empty
\* list as split input, a successful update leaves one split per current
\* member.
C14_EqualRecomputeOnEmptyList ==
  [][(last.op = "none" /\ last'.op = "update" /\ LastExp'.split_type = EQUAL) =>
       /\ last'.req.splits = None => (last'.result = OK /\ splits' = splits)
       /\ (last'.req.splits = Some(<<>>) /\ last'.result = OK) =>
            /\ {r.user : r \in LastRows'} = MemberSet(LastExp'.board)
            /\ Cardinality(LastRows') = Cardinality(MemberSet(LastExp'.board))]_vars

\* The rows are what the strategy of expense exp computes for its amount.
ComputedFor(exp, rows) ==
  IF exp.split_type = AMOUNT THEN SumShares(rows) = exp.amount
  ELSE IF exp.split_type = PERCENTAGE
    THEN /\ \A r \in rows : r.percentage # None
         /\ SumOf([r \in rows |-> Get(r.percentage)], rows) = Hundred * PctScale
         /\ \A r \in rows :
              IsNearest(r.share_amount, Get(r.percentage) * exp.amount, Hundred * PctScale)
  ELSE \A r \in rows :
         r.percentage = None /\ IsNearest(r.share_amount, exp.amount, Cardinality(rows))

\* C15: after a successful update that changes the amount or the split kind
\* of an expense that has splits, its splits are those computed for the new
\* amount and kind.
C15_RecomputedOnChange ==
  [][(/\ last.op = "none" /\ last'.op = "update" /\ last'.result = OK
      /\ SplitsOf(splits, last'.expense) # {}
      /\ \/ LastExp'.amount # Get(expenses[last'.expense]).amount
         \/ LastExp'.split_type # Get(expenses[last'.expense]).split_type)
     => ComputedFor(LastExp', LastRows')]_vars

\* C16: in every state, whatever creates and updates ran, failed or were
\* interleaved before, an expense has at most one split per user.
C16_OneSplitPerUser ==
  \A e \in DOMAIN expenses, u \in Users :
    Cardinality({r \in splits : r.expense = e /\ r.user = u}) <= 1

\* C16 witness: two updates of one expense have written their splits, and
\* the participant set is no longer the one the expense was created with.
C16_Witness ==
  /\ \A r \in ReqIds : reqs[r].pc = "done" /\ reqs[r].result = OK
  /\ \E e \in DOMAIN expenses :
       /\ \A r \in ReqIds : reqs[r].expense = e
       /\ {x.user : x \in SplitsOf(splits, e)} # Users
       /\ SplitsOf(splits, e) # {}

\* C17: in every state there is at most one membership record per board and
\* user.
C17_OneMembershipPerUser ==
  \A b \in DOMAIN members, u \in Users : members[b][u] <= 1

\* C18: the step that creates user u creates exactly one board, named
\* "Default Board" and created by u, and exactly one membership, of u in that
\* board; no other step creates a board, so saving an existing user again
\* creates none.
C18_DefaultBoardOnCreation ==
  [][/\ \A u \in Users :
          (u \notin userTable /\ u \in userTable') =>
            \E b \in BoardIds :
              /\ boards[b] = None
              /\ boards' = [boards EXCEPT ![b] = Some(Board(DefaultBoardName, u))]
              /\ members' = [members EXCEPT ![b][u] = 1]
     /\ userTable' = userTable => boards' = boards]_vars

\* C18 witness: both users were created, and each has one default board of
\* which it is a member.
C18_Witness ==
  /\ userTable = Users
  /\ \A u \in Users :
       /\ Cardinality({b \in ExistingBoards :
                         boards[b] = Some(Board(DefaultBoardName, u))}) = 1
       /\ \E b \in ExistingBoards :
            boards[b] = Some(Board(DefaultBoardName, u)) /\ members[b][u] = 1

\* the expenses user u gets from the listing, of board_pk when it is given
Listing(u, board_pk) ==
  {e \in ExistingExpenses : get_queryset(expenses, members, u, board_pk)[e] > 0}

\* C19: the expense listing of a user holds only expenses of boards the user
\* is a member of, and under board X only expenses of X; so the listing of a
\* board the user is not a member of is empty.
C19_ListingOnlyOwnBoards ==
  \A u \in userTable, pk \in Opt(BoardIds) :
    /\ \A e \in Listing(u, pk) :
         /\ u \in MemberSet(Get(expenses[e]).board)
         /\ pk # None => Get(expenses[e]).board = Get(pk)
    /\ (pk # None /\ u \notin MemberSet(Get(pk))) => Listing(u, pk) = {}

\* C19 witness: a user who is a member of one board with an expense and not
\* of another board with an expense, and who is listed the first one.
C19_Witness ==
  \E u \in userTable, b \in ExistingBoards, c \in ExistingBoards :
    /\ b # c /\ u \in MemberSet(b) /\ u \notin MemberSet(c)
    /\ ExpensesOfBoard(c) # {}
    /\ Listing(u, None) = ExpensesOfBoard(b) /\ Listing(u, None) # {}

\* C20: an update of an Amount or Percentage expense without split input
\* succeeds and leaves every split as it was, whatever fields it changes.
C20_OmittedInputKeepsSplits ==
  [][(/\ last.op = "none" /\ last'.op = "update" /\ last'.req.splits = None
      /\ Get(expenses[last'.expense]).split_type \in {AMOUNT, PERCENTAGE})
     => (last'.result = OK /\ splits' = splits)]_vars

\* C20 witness: an Amount or Percentage expense whose amount was changed by
\* an update without split input, its splits being those of the old amount.
C20_Witness ==
  /\ last.op = "update" /\ last.req.splits = None /\ last.req.amount # None
  /\ last.req.split_type = None
  /\ LastExp.split_type \in {AMOUNT, PERCENTAGE}
  /\ LastRows # {} /\ SumShares(LastRows) # LastExp.amount

\* C21: an update whose body has split input and a new amount or split kind
\* saves the new amount and kind, and validates and computes the splits
\* against them: Amount input is accepted exactly when its shares sum to the
\* new amount, and the splits of a successful update are those of the new
\* kind for the new amount.
C21_SplitsUseNewValues ==
  (/\ last.op = "update" /\ last.req.splits # None
   /\ last.req.amount # None \/ last.req.split_type # None) =>
    /\ last.req.amount # None => LastExp.amount = Get(last.req.amount)
    /\ last.req.split_type # None => LastExp.split_type = Get(last.req.split_type)
    /\ (/\ LastExp.split_type = AMOUNT /\ InputItems # <<>>
        /\ AllCarryShare /\ ~InputRepeatsUser) =>
         (Succeeded <=> SumShareInput(InputItems) = LastExp.amount)
    /\ Succeeded => (ComputedFor(LastExp, LastRows) /\ \A r \in LastRows : NewlyComputed(r))

\* C21 witness: one update made the expense an Amount expense of 1.00 and
\* gave it shares that sum to 1.00.
C21_Witness ==
  /\ last.op = "update" /\ Succeeded
  /\ last.req.amount = Some(100) /\ last.req.split_type = Some(AMOUNT)
  /\ last.req.splits # None
  /\ LastRows # {} /\ SumShares(LastRows) = 100

\* C22: for an Amount or Percentage expense, malformed split input ends in
\* ValidationError and in no other failure: absent input, an empty list, and
\* for Percentage a list with an entry that carries no percentage.
C22_MalformedInputIsValidationError ==
  (/\ last.op = "create" \/ (last.op = "update" /\ last.req.splits # None)
   /\ \/ LastType \in {AMOUNT, PERCENTAGE} /\ InputItems = <<>>
      \/ LastType = PERCENTAGE /\ ~AllCarryPercentage) =>
    last.result = ValidationError

\* C23: for every board and every member of it, balance_in_board of the
\* member for the board equals the entry of the member in get_balances of
\* the board.
C23_BalanceComputationsAgree ==
  \A b \in ExistingBoards : \A u \in MemberSet(b) :
    EqualsDecimal(balance_in_board(expenses, splits, u, b), get_balances(b)[u])

\* What the code guarantees instead: balance_in_board is the float nearest
\* to the entry of get_balances.
C23_BalancesAgreeToNearestFloat ==
  \A b \in ExistingBoards : \A u \in MemberSet(b) :
    balance_in_board(expenses, splits, u, b) = float(get_balances(b)[u])

\* every expense of board b has a member as payer, members as split users,
\* and shares that sum to its amount
BoardSettled(b) ==
  \A e \in ExpensesOfBoard(b) :
    /\ Get(expenses[e]).payer \in MemberSet(b)
    /\ \A r \in SplitsOf(splits, e) : r.user \in MemberSet(b)
    /\ SumShares(SplitsOf(splits, e)) = Get(expenses[e]).amount

\* C24: when every expense of a board has a payer and split users who are
\* members of the board, and shares that sum to its amount, the balances of
\* get_balances sum to zero over the members of the board.
C24_BalancesSumToZero ==
  \A b \in ExistingBoards :
    BoardSettled(b) => SumOf(get_balances(b), MemberSet(b)) = 0

\* C24 witness: such a board with an expense, two members, and a member who
\* owes the board.
C24_Witness ==
  \E b \in ExistingBoards :
    /\ BoardSettled(b) /\ ExpensesOfBoard(b) # {}
    /\ Cardinality(MemberSet(b)) = 2
    /\ \E u \in MemberSet(b) : get_balances(b)[u] < 0

\* C2: while one update replaces the splits of an expense, the balances of
\* its board, as a reader computes them at that moment, are those of the
\* complete old split set or those of the complete new one.
C2_ReaderSeesOldOrNew ==
  \A r \in ReqIds :
    (reqs[r].pc # "idle" /\ \A q \in ReqIds \ {r} : reqs[q].pc = "idle") =>
      LET e == reqs[r].expense
          b == Get(expenses[e]).board
          others == splits \ SplitsOf(splits, e)
      IN  get_balances(b) \in
            {Balances(expenses, others \cup reqs[r].old, members, b),
             Balances(expenses, others \cup reqs[r].alone, members, b)}

\* C5: when two updates of the same expense have both succeeded, its splits
\* are those one of the two leaves when it runs alone.
C5_UpdatesDoNotInterleave ==
  (\A r \in ReqIds : reqs[r].pc = "done" /\ reqs[r].result = OK) =>
    \A e \in ExpIds :
      (\A r \in ReqIds : reqs[r].expense = e) =>
        SplitsOf(splits, e) \in {reqs[r].alone : r \in ReqIds}

====
